---- MODULE Spec2Model ----
(***************************************************************************)
(* Model of the clip-stitching scripts of veo_clip_transitions.            *)
(*                                                                         *)
(* Every script lists and downloads the clips of a folder, builds a        *)
(* timeline (start offset per clip and a total duration), renders it and   *)
(* uploads the result.  veo2_interpolation.py additionally asks a remote   *)
(* service for a bridge clip per adjacent pair and polls the long-running  *)
(* operation.                                                              *)
(*                                                                         *)
(* Time is counted in ticks of a fixed quantum, so that durations, the     *)
(* transition duration and the offsets are integers (offsets may be        *)
(* negative, exactly as the subtraction in the scripts allows).            *)
(***************************************************************************)
EXTENDS Integers, Sequences, FiniteSets, TLC

\* ---------------------------------------------------------------- bounds
MaxClips == 3          \* clips in the source folder: 0..MaxClips
MaxDur == 3            \* clip durations: 1..MaxDur ticks
MaxTransition == 4     \* transition durations: 0..MaxTransition ticks
MaxVeoClips == 3       \* clips in the source folder of the interpolation script
MaxVeoDur == 2         \* clip durations of the interpolation script: 1..MaxVeoDur
MaxGenerated == 2      \* generated bridge clips last 5, 10, .. 5 * MaxGenerated ticks
MaxFrameSizes == 2     \* distinct frame sizes (width, height) among the clips
MaxObjects == 2        \* objects returned by the storage listing: 0..MaxObjects
MaxNameLen == 3        \* characters of an object name after the source prefix

\* ------------------------------------------------------------- constants
max_iterations == 600  \* veo2_interpolation.py:116
TRANSITION_SPEED == 5  \* veo2_interpolation.py:24
VEO_TRANSITION_DURATION == 1  \* veo2_interpolation.py:23 (never read by the script)

CursorPipelines == {"crossfade", "slide", "wipe"}
LocalPipelines == {"concatenation", "fade_in_out", "blend", "crossfade", "slide", "wipe", "xfade"}
MoviepyPipelines == LocalPipelines \ {"xfade"}

VARIABLES
  pipeline,          \* which script runs
  durs,              \* durations of the listed objects, in listing order; once the
                     \* files are downloaded and sorted, of the clips in stitching order
  d,                 \* TRANSITION_DURATION / transition_duration
  sizes,             \* frame sizes, in the same order as durs
  pc,                \* position of the script
  i,                 \* loop index of the scheduling loop (0-based, as in the source)
  plan,              \* composited_clips_list / clips_to_stitch / processed_clips: placed segments
  current_duration,  \* the running cursor (xfade: duration of current_video_path)
  total,             \* duration of final_clip
  rendered,          \* write_videofile / the last ffmpeg run has produced the final file
  uploaded,          \* the final video was uploaded
  outcome,           \* how the run ended
  final_sequence,    \* veo2_interpolation: clips and bridge clips, in order
  jobState,          \* state of the long-running operation of the current pair
  attemptCount,      \* status requests issued for the current operation
  notDone,           \* done=false answers received for the current operation
  generated_videos_uri, \* value returned by interpolate_video_veo2
  lastResponse,      \* the last answer of the remote service
  frames,            \* the clips whose last and first frame frame_A_path / frame_B_path hold
  timeoutLogged,     \* "Polling timed out ... after max_iterations attempts" was printed
  blobs,             \* names of the objects list_blobs has still to yield, in its order
  video_blobs,       \* xfade.py: the video blobs, sorted by name
  downloaded_files,  \* downloaded_files / local_video_paths: local file names
  clips              \* the object each local file, hence each clip, plays

vars == <<pipeline, durs, d, sizes, pc, i, plan, current_duration, total, rendered,
          uploaded, outcome, final_sequence, frames, jobState, attemptCount, notDone,
          generated_videos_uri, lastResponse, timeoutLogged,
          blobs, video_blobs, downloaded_files, clips>>

schedVars == <<plan, current_duration, total, i>>
jobVars == <<final_sequence, frames, jobState, attemptCount, notDone, generated_videos_uri,
             lastResponse, timeoutLogged>>
listVars == <<blobs, video_blobs, downloaded_files, clips>>
inputVars == <<pipeline, d, durs, sizes, blobs, video_blobs, downloaded_files, clips>>

\* ---------------------------------------------------------------- helpers
Min(a, b) == IF a <= b THEN a ELSE b
Max(a, b) == IF a >= b THEN a ELSE b

RECURSIVE SumSeq(_)
SumSeq(s) == IF s = <<>> THEN 0 ELSE Head(s) + SumSeq(Tail(s))

ClipLists == UNION {[1..n -> 1..MaxDur] : n \in 0..MaxClips}

\* Frame sizes, as identifiers of (width, height) pairs.
FrameSizes == 1..MaxFrameSizes

\* video_size = clips[0].size: the size of the composite, of the slide
\* trajectory and of the wipe mask.
video_size == sizes[1]

VeoClipLists == UNION {[1..n -> 1..MaxVeoDur] : n \in 0..MaxVeoClips}

\* Answers of the remote generation service to a status request.
URIs == {"gs://veo_exps_prod/x", "gs://veo_exps_prod/y"}
NoResponse == [kind |-> "none", uri |-> ""]

\* No frame has been extracted yet.
NoFrames == [A |-> -1, B |-> -1]
Responses ==
  {[kind |-> k, uri |-> ""] : k \in {"not_done", "done_no_uri", "done_error", "transport_error"}}
  \cup {[kind |-> "done_uri", uri |-> u] : u \in URIs}

\* Lengths, in ticks, of the clips the service generates.
GeneratedLengths == {TRANSITION_SPEED * k : k \in 1..MaxGenerated}

\* A placed segment: a source clip or a bridge clip, its start on the shared
\* timeline, its duration and the fades applied to it.
Seg(kind, idx, start, dur, fi, fo) ==
  [kind |-> kind, idx |-> idx, start |-> start, dur |-> dur, fadein |-> fi, fadeout |-> fo]

SegEnd(s) == s.start + s.dur

\* CompositeVideoClip without set_duration: the duration is the largest end.
RECURSIVE MaxEnd(_)
MaxEnd(segs) ==
  IF segs = <<>> THEN 0 ELSE Max(SegEnd(Head(segs)), MaxEnd(Tail(segs)))

\* concatenate_videoclips: tt = cumsum([0] + durations); clip k starts at tt[k].
RECURSIVE ConcatStarts(_, _)
ConcatStarts(ds, t) ==
  IF ds = <<>> THEN <<>> ELSE <<t>> \o ConcatStarts(Tail(ds), t + Head(ds))

\* ------------------------------------------------------------ object names
\* An object name is the sequence of its characters after the source prefix,
\* characters being numbered in ASCII order: "/" < "a" < "b".  A name that
\* does not end with "/" stands for that name followed by ".mp4"; a name that
\* ends with "/" is a folder placeholder.
Slash == 1
NameChars == {Slash, 2, 3}

ObjectNames ==
  { name \in UNION { [1..n -> NameChars] : n \in 1..MaxNameLen } :
      /\ name[1] # Slash
      /\ \A k \in 1..(Len(name) - 1) : ~(name[k] = Slash /\ name[k + 1] = Slash) }

\* Listings: sequences of distinct object names.
Listings ==
  { l \in UNION { [1..n -> ObjectNames] : n \in 0..MaxObjects } :
      \A j, k \in 1..Len(l) : j # k => l[j] # l[k] }

\* The listings of a flat folder of n videos named "a", "b", ..: the sorted
\* order and its rotations.
FolderListings(n) ==
  IF n = 0 THEN {<<>>}
  ELSE {[k \in 1..n |-> <<((k + r - 1) % n) + 2>>] : r \in 0..(n - 1)}

\* blob.name.lower().endswith(('.mp4', ...)) and not blob.name.endswith('/')
IsVideo(name) == name[Len(name)] # Slash

\* os.path.basename: what follows the last "/".
RECURSIVE basename(_)
basename(name) ==
  IF \E k \in 1..Len(name) : name[k] = Slash
    THEN basename(Tail(name))
    ELSE name

\* str.__lt__: lexicographic order, a proper prefix comes first.
RECURSIVE StrLess(_, _)
StrLess(a, b) ==
  IF b = <<>> THEN FALSE
  ELSE IF a = <<>> THEN TRUE
  ELSE IF Head(a) # Head(b) THEN Head(a) < Head(b)
  ELSE StrLess(Tail(a), Tail(b))

\* list.sort() on strings (stable: an element stays behind its equals).
RECURSIVE InsertSorted(_, _)
InsertSorted(x, sorted) ==
  IF sorted = <<>> THEN <<x>>
  ELSE IF StrLess(x, Head(sorted)) THEN <<x>> \o sorted
  ELSE <<Head(sorted)>> \o InsertSorted(x, Tail(sorted))

RECURSIVE SortStrings(_)
SortStrings(names) ==
  IF names = <<>> THEN <<>>
  ELSE InsertSorted(names[Len(names)], SortStrings(SubSeq(names, 1, Len(names) - 1)))

\* blob.download_to_filename(local_path) for every blob of order, in turn:
\* the file local_path holds the object downloaded to it last.
FileContent(local_path, order) ==
  LET hits == { k \in 1..Len(order) : basename(order[k]) = local_path }
  IN order[CHOOSE k \in hits : \A j \in hits : j <= k]

\* local_path = os.path.join(dir, os.path.basename(blob.name)), per blob.
LocalPaths(order) == [k \in 1..Len(order) |-> basename(order[k])]

\* The object each of the local paths holds after the blobs of order were
\* downloaded in turn.
Played(paths, order) == [k \in 1..Len(paths) |-> FileContent(paths[k], order)]

\* Where an object stands in a list of distinct objects.
Position(name, order) == CHOOSE k \in 1..Len(order) : order[k] = name

\* The values (durations, frame sizes) of the given objects, values being
\* listed in the order of order.
ValuesOf(values, objects, order) ==
  [k \in 1..Len(objects) |-> values[Position(objects[k], order)]]

Raise(err) ==
  /\ pc' = "end"
  /\ outcome' = err

\* ------------------------------------------------------------------- Init
InitCommon ==
  /\ durs \in ClipLists
  /\ blobs \in FolderListings(Len(durs))
  /\ pc = IF pipeline = "xfade" THEN "check" ELSE "download"
  /\ i = 0
  /\ plan = <<>>
  /\ current_duration = 0
  /\ total = 0
  /\ rendered = FALSE
  /\ uploaded = FALSE
  /\ outcome = "running"
  /\ final_sequence = <<>>
  /\ frames = NoFrames
  /\ jobState = "none"
  /\ attemptCount = 0
  /\ notDone = 0
  /\ generated_videos_uri = ""
  /\ lastResponse = NoResponse
  /\ timeoutLogged = FALSE
  /\ video_blobs = <<>>
  /\ downloaded_files = <<>>
  /\ clips = <<>>

\* Only slide.py and wipe.py read clip.size (video_size = clips[0].size), so
\* the frame sizes vary for these two scripts only.
Init ==
  /\ pipeline \in LocalPipelines
  /\ d \in 0..MaxTransition
  /\ InitCommon
  /\ sizes \in IF pipeline \in {"slide", "wipe"}
                THEN [1..Len(durs) -> FrameSizes]
                ELSE {[k \in 1..Len(durs) |-> 1]}

\* --------------------------------------------------------------- download
\* Step 1 of the moviepy scripts and of veo2_interpolation.py: go through the
\* listing, skip what is no video, download each video to its base name,
\* return early when there is none, sort the local paths and open one clip
\* per path (fade-in-out.py opens them later, inside its loop).
Download ==
  /\ pc = "download"
  /\ pipeline \in MoviepyPipelines \cup {"veo2"}
  /\ LET videos == SelectSeq(blobs, IsVideo)
         sorted == SortStrings(LocalPaths(videos))
         opened == Played(sorted, videos)
     IN /\ blobs' = <<>>
        /\ downloaded_files' = sorted
        /\ clips' = opened
        /\ durs' = ValuesOf(durs, opened, blobs)
        /\ sizes' = ValuesOf(sizes, opened, blobs)
        /\ IF videos = <<>>
             THEN /\ pc' = "end"
                  /\ outcome' = "no_videos"
             ELSE /\ pc' = "schedule"
                  /\ outcome' = outcome
  /\ UNCHANGED <<pipeline, d, video_blobs, schedVars, rendered, uploaded, jobVars>>

\* storage.Client() or list_blobs raises (j = 0), or the download of the
\* j-th listed object does: the run ends with the files downloaded so far.
\* The moviepy scripts and veo2_interpolation.py report the error in their
\* except clause; xfade.py, which downloads later, lets it end main.
DownloadFail ==
  /\ pc = "download"
  /\ \E j \in 0..Len(blobs) :
       /\ IF j = 0 THEN TRUE ELSE pipeline # "xfade" /\ IsVideo(blobs[j])
       /\ downloaded_files' = LocalPaths(SelectSeq(SubSeq(blobs, 1, j - 1), IsVideo))
       /\ blobs' = SubSeq(blobs, j + 1, Len(blobs))
  /\ Raise("io_error")
  /\ UNCHANGED <<pipeline, d, durs, sizes, video_blobs, clips, schedVars, rendered,
                 uploaded, jobVars>>

\* clips = [VideoFileClip(f) for f in downloaded_files] raises on a file that
\* cannot be read: every file is downloaded, no timeline is built.
VideoFileClipFail ==
  /\ pc = "download"
  /\ pipeline \in (MoviepyPipelines \ {"fade_in_out"}) \cup {"veo2"}
  /\ LET videos == SelectSeq(blobs, IsVideo)
         sorted == SortStrings(LocalPaths(videos))
         opened == Played(sorted, videos)
     IN /\ videos # <<>>
        /\ blobs' = <<>>
        /\ downloaded_files' = sorted
        /\ clips' = <<>>
        /\ durs' = ValuesOf(durs, opened, blobs)
        /\ sizes' = ValuesOf(sizes, opened, blobs)
  /\ Raise("io_error")
  /\ UNCHANGED <<pipeline, d, video_blobs, schedVars, rendered, uploaded, jobVars>>

\* -------------------------------------------------------------- crossfade
\* Variant of CrossfadeStep whose cursor forgets the overlap.
CrossfadeStepNoOverlap ==
  /\ pc = "schedule"
  /\ pipeline = "crossfade"
  /\ i < Len(durs)
  /\ LET clip == durs[i + 1] IN
       IF i = 0
         THEN /\ plan' = Append(plan, Seg("clip", i, 0, clip, 0, 0))
              /\ current_duration' = clip
         ELSE LET start_time == current_duration - d IN
              /\ plan' = Append(plan, Seg("clip", i, start_time, clip, d, 0))
              /\ current_duration' = current_duration + clip
  /\ i' = i + 1
  /\ UNCHANGED <<inputVars, pc, total, rendered, uploaded, outcome, jobVars>>

CrossfadeStep ==
  /\ pc = "schedule"
  /\ pipeline = "crossfade"
  /\ i < Len(durs)
  /\ LET clip == durs[i + 1] IN
       IF i = 0
         THEN /\ plan' = Append(plan, Seg("clip", i, 0, clip, 0, 0))
              /\ current_duration' = clip
         ELSE LET start_time == current_duration - d IN
              /\ plan' = Append(plan, Seg("clip", i, start_time, clip, d, 0))
              /\ current_duration' = current_duration + clip - d
  /\ i' = i + 1
  /\ UNCHANGED <<inputVars, pc, total, rendered, uploaded, outcome, jobVars>>

\* CompositeVideoClip(composited_clips_list).set_duration(current_duration)
CrossfadeComposite ==
  /\ pc = "schedule"
  /\ pipeline = "crossfade"
  /\ i = Len(durs)
  /\ total' = current_duration
  /\ pc' = "write"
  /\ UNCHANGED <<inputVars, plan, current_duration, i, rendered, uploaded, outcome, jobVars>>

\* ------------------------------------------------------------------ slide
\* Variant of SlideStep whose cursor subtracts the overlap twice.
SlideStepOverlapTwice ==
  /\ pc = "schedule"
  /\ pipeline = "slide"
  /\ i < Len(durs)
  /\ LET clip == durs[i + 1] IN
       IF i = 0
         THEN /\ plan' = Append(plan, Seg("clip", i, 0, clip, 0, 0))
              /\ current_duration' = clip
         ELSE LET start_time == current_duration - d IN
              /\ plan' = Append(plan, Seg("clip", i, start_time, clip, 0, 0))
              /\ current_duration' = start_time + clip - d
  /\ i' = i + 1
  /\ UNCHANGED <<inputVars, pc, total, rendered, uploaded, outcome, jobVars>>

SlideStep ==
  /\ pc = "schedule"
  /\ pipeline = "slide"
  /\ i < Len(durs)
  /\ LET clip == durs[i + 1] IN
       IF i = 0
         THEN /\ plan' = Append(plan, Seg("clip", i, 0, clip, 0, 0))
              /\ current_duration' = clip
         ELSE LET start_time == current_duration - d IN
              /\ plan' = Append(plan, Seg("clip", i, start_time, clip, 0, 0))
              /\ current_duration' = current_duration + clip - d
  /\ i' = i + 1
  /\ UNCHANGED <<inputVars, pc, total, rendered, uploaded, outcome, jobVars>>

SlideComposite ==
  /\ pc = "schedule"
  /\ pipeline = "slide"
  /\ i = Len(durs)
  /\ total' = current_duration
  /\ pc' = "write"
  /\ UNCHANGED <<inputVars, plan, current_duration, i, rendered, uploaded, outcome, jobVars>>

\* ------------------------------------------------------------------- wipe
\* VideoClip(create_wipe_mask, ...) evaluates create_wipe_mask(0) to learn the
\* mask size; t / TRANSITION_DURATION divides by zero when the duration is 0.
WipeStep ==
  /\ pc = "schedule"
  /\ pipeline = "wipe"
  /\ i < Len(durs)
  /\ LET clip == durs[i + 1] IN
       IF i = 0
         THEN /\ plan' = Append(plan, Seg("clip", i, 0, clip, 0, 0))
              /\ current_duration' = clip
              /\ i' = i + 1
              /\ UNCHANGED <<pc, outcome>>
         ELSE IF d = 0
           THEN /\ Raise("zero_division")
                /\ UNCHANGED <<plan, current_duration, i>>
           ELSE LET start_time == current_duration - d IN
                /\ plan' = Append(plan, Seg("clip", i, start_time, clip, 0, 0))
                /\ current_duration' = current_duration + clip - d
                /\ i' = i + 1
                /\ UNCHANGED <<pc, outcome>>
  /\ UNCHANGED <<inputVars, total, rendered, uploaded, jobVars>>

WipeComposite ==
  /\ pc = "schedule"
  /\ pipeline = "wipe"
  /\ i = Len(durs)
  /\ total' = current_duration
  /\ pc' = "write"
  /\ UNCHANGED <<inputVars, plan, current_duration, i, rendered, uploaded, outcome, jobVars>>

\* ---------------------------------------------------------- concatenation
\* Variant of ConcatOnly that joins the clips with a padding of -1 tick.
ConcatOnlyPadded ==
  /\ pc = "schedule"
  /\ pipeline = "concatenation"
  /\ LET tt == ConcatStarts(durs \o <<0>>, 0) IN
       /\ plan' = [k \in 1..Len(durs) |-> Seg("clip", k - 1, Max(0, tt[k] - (k - 1)), durs[k], 0, 0)]
       /\ total' = Max(0, tt[Len(durs) + 1] - Len(durs))
  /\ i' = Len(durs)
  /\ pc' = "write"
  /\ UNCHANGED <<inputVars, current_duration, rendered, uploaded, outcome, jobVars>>

\* concatenate_videoclips(clips_to_stitch): clip k plays from tt[k], the
\* result lasts tt[-1].
ConcatOnly ==
  /\ pc = "schedule"
  /\ pipeline = "concatenation"
  /\ LET tt == ConcatStarts(durs \o <<0>>, 0) IN
       /\ plan' = [k \in 1..Len(durs) |-> Seg("clip", k - 1, tt[k], durs[k], 0, 0)]
       /\ total' = tt[Len(durs) + 1]
  /\ i' = Len(durs)
  /\ pc' = "write"
  /\ UNCHANGED <<inputVars, current_duration, rendered, uploaded, outcome, jobVars>>

\* ------------------------------------------------------------ fade-in-out
\* One iteration of the loop: open the clip, fade it in unless it is the
\* first, fade it out unless it is the last.
FadeStep ==
  /\ pc = "schedule"
  /\ pipeline = "fade_in_out"
  /\ i < Len(durs)
  /\ LET num_clips == Len(durs)
         fi == IF i > 0 THEN d ELSE 0
         fo == IF i < num_clips - 1 THEN d ELSE 0
     IN plan' = Append(plan, Seg("clip", i, 0, durs[i + 1], fi, fo))
  /\ i' = i + 1
  /\ UNCHANGED <<inputVars, pc, current_duration, total, rendered, uploaded, outcome, jobVars>>

\* clip = VideoFileClip(file_path) raises inside the loop: the clips processed
\* so far are dropped and the except clause reports the error.
FadeStepFail ==
  /\ pc = "schedule"
  /\ pipeline = "fade_in_out"
  /\ i < Len(durs)
  /\ Raise("io_error")
  /\ UNCHANGED <<inputVars, schedVars, rendered, uploaded, jobVars>>

\* concatenate_videoclips(processed_clips, method="compose")
FadeConcatenate ==
  /\ pc = "schedule"
  /\ pipeline = "fade_in_out"
  /\ i = Len(durs)
  /\ LET tt == ConcatStarts([k \in 1..Len(plan) |-> plan[k].dur] \o <<0>>, 0) IN
       /\ plan' = [k \in 1..Len(plan) |-> [plan[k] EXCEPT !.start = tt[k]]]
       /\ total' = tt[Len(plan) + 1]
  /\ pc' = "write"
  /\ UNCHANGED <<inputVars, current_duration, i, rendered, uploaded, outcome, jobVars>>

\* ------------------------------------------------------------------ blend
\* clips_to_stitch = [clips[0].fadeout], then every later clip faded in and
\* started at clips[i-1].duration - TRANSITION_DURATION.
BlendStep ==
  /\ pc = "schedule"
  /\ pipeline = "blend"
  /\ i < Len(durs)
  /\ IF i = 0
       THEN plan' = <<Seg("clip", 0, 0, durs[1], 0, d)>>
       ELSE plan' = Append(plan, Seg("clip", i, durs[i] - d, durs[i + 1], d, 0))
  /\ i' = i + 1
  /\ UNCHANGED <<inputVars, pc, current_duration, total, rendered, uploaded, outcome, jobVars>>

\* clips_to_stitch[-1] = clips[-1]...set_start(clips[-2].duration - d), then
\* CompositeVideoClip(clips_to_stitch); clips[-2] does not exist for one clip.
BlendComposite ==
  /\ pc = "schedule"
  /\ pipeline = "blend"
  /\ i = Len(durs)
  /\ LET n == Len(durs) IN
       IF n < 2
         THEN /\ Raise("index_error")
              /\ UNCHANGED <<plan, total>>
         ELSE LET last == Seg("clip", n - 1, durs[n - 1] - d, durs[n], d, 0)
                  clips_to_stitch == [plan EXCEPT ![Len(plan)] = last]
              IN /\ plan' = clips_to_stitch
                 /\ total' = MaxEnd(clips_to_stitch)
                 /\ pc' = "write"
                 /\ outcome' = outcome
  /\ UNCHANGED <<inputVars, current_duration, i, rendered, uploaded, jobVars>>

\* ------------------------------------------------------------------ xfade
\* check_for_ffmpeg(): main exits when ffmpeg or ffprobe is not installed.
check_for_ffmpeg ==
  /\ pc = "check"
  /\ pipeline = "xfade"
  /\ \E found \in BOOLEAN :
       IF found
         THEN /\ pc' = "download"
              /\ outcome' = outcome
         ELSE Raise("exit_ffmpeg_missing")
  /\ UNCHANGED <<inputVars, schedVars, rendered, uploaded, jobVars>>

\* list_blobs_in_folder keeps the video blobs and sorts them by name; main
\* stops when fewer than two were found.
XfadeList ==
  /\ pc = "download"
  /\ pipeline = "xfade"
  /\ LET sorted == SortStrings(SelectSeq(blobs, IsVideo))
     IN /\ video_blobs' = sorted
        /\ blobs' = <<>>
        /\ durs' = ValuesOf(durs, sorted, blobs)
        /\ sizes' = ValuesOf(sizes, sorted, blobs)
        /\ IF Len(sorted) < 2
             THEN /\ pc' = "end"
                  /\ outcome' = "too_few_videos"
             ELSE /\ pc' = "fetch"
                  /\ outcome' = outcome
  /\ UNCHANGED <<pipeline, d, downloaded_files, clips, schedVars, rendered, uploaded, jobVars>>

\* local_video_paths = [download_blob(blob, temp_dir) for blob in video_blobs];
\* current_video_path = local_video_paths[0]
XfadeDownload ==
  /\ pc = "fetch"
  /\ LET local_video_paths == LocalPaths(video_blobs)
         held == Played(local_video_paths, video_blobs)
         durations == ValuesOf(durs, held, video_blobs)
     IN /\ downloaded_files' = local_video_paths
        /\ clips' = held
        /\ durs' = durations
        /\ sizes' = ValuesOf(sizes, held, video_blobs)
        /\ plan' = <<Seg("clip", 0, 0, durations[1], 0, 0)>>
        /\ current_duration' = durations[1]
  /\ i' = 1
  /\ pc' = "schedule"
  /\ UNCHANGED <<pipeline, d, blobs, video_blobs, total, rendered, uploaded, outcome, jobVars>>

\* download_blob raises on the j-th video blob: main ends with the files
\* downloaded so far.
XfadeDownloadFail ==
  /\ pc = "fetch"
  /\ \E j \in 1..Len(video_blobs) :
       downloaded_files' = LocalPaths(SubSeq(video_blobs, 1, j - 1))
  /\ Raise("io_error")
  /\ UNCHANGED <<pipeline, d, durs, sizes, blobs, video_blobs, clips, schedVars,
                 rendered, uploaded, jobVars>>

\* Durations the xfade filter graph can produce.  With 0 <= offset and a
\* transition no longer than the second input the output lasts
\* offset + duration2; otherwise the result is left to ffmpeg.
XfadeOutputDurations(duration1, duration2, offset) ==
  IF offset >= 0 /\ d <= duration2
    THEN {offset + duration2}
    ELSE 1..(duration1 + duration2)

\* Variant of stitch_two_videos whose offset is taken from the duration of the
\* clip stitched last instead of the video accumulated so far.
stitch_two_videosOwnDuration ==
  /\ pc = "schedule"
  /\ pipeline = "xfade"
  /\ i < Len(durs)
  /\ LET duration1 == durs[i]
         offset == duration1 - d
     IN /\ plan' = Append(plan, Seg("clip", i, offset, durs[i + 1], d, 0))
        /\ current_duration' \in XfadeOutputDurations(duration1, durs[i + 1], offset)
  /\ i' = i + 1
  /\ UNCHANGED <<inputVars, pc, total, rendered, uploaded, outcome, jobVars>>

\* One iteration of main's loop: stitch_two_videos(current, next, temp_stitch_i)
stitch_two_videos ==
  /\ pc = "schedule"
  /\ pipeline = "xfade"
  /\ i < Len(durs)
  /\ LET duration1 == current_duration
         offset == duration1 - d
     IN /\ plan' = Append(plan, Seg("clip", i, offset, durs[i + 1], d, 0))
        /\ current_duration' \in XfadeOutputDurations(duration1, durs[i + 1], offset)
  /\ i' = i + 1
  /\ UNCHANGED <<inputVars, pc, total, rendered, uploaded, outcome, jobVars>>

\* subprocess.run(..., check=True) raises when ffmpeg fails
stitch_two_videosFail ==
  /\ pc = "schedule"
  /\ pipeline = "xfade"
  /\ i < Len(durs)
  /\ Raise("io_error")
  /\ UNCHANGED <<inputVars, schedVars, rendered, uploaded, jobVars>>

\* final_video_path = current_video_path
XfadeFinal ==
  /\ pc = "schedule"
  /\ pipeline = "xfade"
  /\ i = Len(durs)
  /\ total' = current_duration
  /\ rendered' = TRUE
  /\ pc' = "upload"
  /\ UNCHANGED <<inputVars, plan, current_duration, i, uploaded, outcome, jobVars>>

\* ------------------------------------------------------ veo2_interpolation
\* Variant of VeoBeginPair that extracts the frames for the first pair only.
VeoBeginPairStaleFrames ==
  /\ pc = "schedule"
  /\ pipeline = "veo2"
  /\ i < Len(durs) - 1
  /\ final_sequence' = Append(final_sequence, Seg("clip", i, 0, durs[i + 1], 0, 0))
  /\ jobState' = "none"
  /\ attemptCount' = 0
  /\ notDone' = 0
  /\ generated_videos_uri' = ""
  /\ lastResponse' = NoResponse
  /\ timeoutLogged' = FALSE
  /\ \E success \in BOOLEAN :
       IF success
         THEN /\ pc' = "encode"
              /\ i' = i
              /\ frames' = IF i = 0 THEN [A |-> i, B |-> i + 1] ELSE frames
         ELSE /\ pc' = "schedule"
              /\ i' = i + 1
              /\ frames' = frames
  /\ UNCHANGED <<inputVars, plan, current_duration, total, rendered, uploaded, outcome>>

\* Top of the pair loop of process_gcs_videos: clip_A joins the sequence and
\* the two boundary frames are extracted; a pair whose frames cannot be read
\* is skipped.
VeoBeginPair ==
  /\ pc = "schedule"
  /\ pipeline = "veo2"
  /\ i < Len(durs) - 1
  /\ final_sequence' = Append(final_sequence, Seg("clip", i, 0, durs[i + 1], 0, 0))
  /\ jobState' = "none"
  /\ attemptCount' = 0
  /\ notDone' = 0
  /\ generated_videos_uri' = ""
  /\ lastResponse' = NoResponse
  /\ timeoutLogged' = FALSE
  /\ \E success \in BOOLEAN :
       IF success
         THEN /\ pc' = "encode"
              /\ i' = i
              /\ frames' = [A |-> i, B |-> i + 1]
         ELSE /\ pc' = "schedule"
              /\ i' = i + 1
              /\ frames' = frames
  /\ UNCHANGED <<inputVars, plan, current_duration, total, rendered, uploaded, outcome>>

\* interpolate_video_veo2, first try block: the frames are read and encoded;
\* on an error the function returns None.
VeoEncodeFrames ==
  /\ pc = "encode"
  /\ \E ok \in BOOLEAN :
       IF ok THEN pc' = "auth" ELSE pc' = "handle"
  /\ UNCHANGED <<inputVars, schedVars, rendered, uploaded, outcome, jobVars>>

\* headers = get_auth_headers(): called outside every try block of
\* interpolate_video_veo2, so an error leaves the function and is caught by
\* process_gcs_videos.
get_auth_headers ==
  /\ pc = "auth"
  /\ \E ok \in BOOLEAN :
       IF ok
         THEN /\ pc' = "submit"
              /\ outcome' = outcome
         ELSE Raise("auth_error")
  /\ UNCHANGED <<inputVars, schedVars, rendered, uploaded, jobVars>>

\* Variant of VeoSubmit that starts polling although the request failed.
VeoSubmitPollsAnyway ==
  /\ pc = "submit"
  /\ \E ok \in BOOLEAN :
       IF ok
         THEN /\ jobState' = "Polling"
              /\ pc' = "poll"
         ELSE /\ jobState' = "SubmissionError"
              /\ pc' = "poll"
  /\ UNCHANGED <<inputVars, schedVars, rendered, uploaded, outcome, final_sequence, frames,
                 attemptCount, notDone, generated_videos_uri, lastResponse, timeoutLogged>>

\* requests.post(api_url, ...) and raise_for_status: the operation is created
\* or one of the outer except clauses ends the call with None.
VeoSubmit ==
  /\ pc = "submit"
  /\ \E ok \in BOOLEAN :
       IF ok
         THEN /\ jobState' = "Polling"
              /\ pc' = "poll"
         ELSE /\ jobState' = "SubmissionError"
              /\ pc' = "handle"
  /\ UNCHANGED <<inputVars, schedVars, rendered, uploaded, outcome, final_sequence, frames,
                 attemptCount, notDone, generated_videos_uri, lastResponse, timeoutLogged>>

\* Variant of VeoPoll that fetches the operation a second time to read the
\* result of a finished operation.
VeoPollRefetch ==
  /\ pc = "poll"
  /\ attemptCount < max_iterations
  /\ \E resp \in Responses :
       /\ lastResponse' = resp
       /\ CASE resp.kind = "not_done" ->
                 /\ attemptCount' = attemptCount + 1
                 /\ notDone' = notDone + 1
                 /\ UNCHANGED <<jobState, generated_videos_uri, pc, timeoutLogged>>
            [] resp.kind \in {"done_uri", "done_no_uri"} ->
                 /\ attemptCount' = attemptCount + 2
                 /\ jobState' = "Succeeded"
                 /\ generated_videos_uri' = resp.uri
                 /\ pc' = "handle"
                 /\ UNCHANGED <<notDone, timeoutLogged>>
            [] resp.kind \in {"done_error", "transport_error"} ->
                 /\ attemptCount' = attemptCount + 1
                 /\ jobState' = "Failed"
                 /\ timeoutLogged' = TRUE
                 /\ pc' = "handle"
                 /\ UNCHANGED <<notDone, generated_videos_uri>>
  /\ UNCHANGED <<inputVars, schedVars, rendered, uploaded, outcome, final_sequence, frames>>

\* Variant of VeoPoll whose loop runs once more than max_iterations.
VeoPollOneMore ==
  /\ pc = "poll"
  /\ attemptCount <= max_iterations
  /\ \E resp \in Responses :
       /\ lastResponse' = resp
       /\ attemptCount' = attemptCount + 1
       /\ CASE resp.kind = "not_done" ->
                 /\ notDone' = notDone + 1
                 /\ UNCHANGED <<jobState, generated_videos_uri, pc, timeoutLogged>>
            [] resp.kind \in {"done_uri", "done_no_uri"} ->
                 /\ jobState' = "Succeeded"
                 /\ generated_videos_uri' = resp.uri
                 /\ pc' = "handle"
                 /\ UNCHANGED <<notDone, timeoutLogged>>
            [] resp.kind \in {"done_error", "transport_error"} ->
                 /\ jobState' = "Failed"
                 /\ timeoutLogged' = TRUE
                 /\ pc' = "handle"
                 /\ UNCHANGED <<notDone, generated_videos_uri>>
  /\ UNCHANGED <<inputVars, schedVars, rendered, uploaded, outcome, final_sequence, frames>>

\* Variant of VeoPoll that keeps polling after a transport error.
VeoPollRetryTransport ==
  /\ pc = "poll"
  /\ attemptCount < max_iterations
  /\ \E resp \in Responses :
       /\ lastResponse' = resp
       /\ attemptCount' = attemptCount + 1
       /\ CASE resp.kind = "not_done" ->
                 /\ notDone' = notDone + 1
                 /\ UNCHANGED <<jobState, generated_videos_uri, pc, timeoutLogged>>
            [] resp.kind = "transport_error" ->
                 UNCHANGED <<notDone, jobState, generated_videos_uri, pc, timeoutLogged>>
            [] resp.kind \in {"done_uri", "done_no_uri"} ->
                 /\ jobState' = "Succeeded"
                 /\ generated_videos_uri' = resp.uri
                 /\ pc' = "handle"
                 /\ UNCHANGED <<notDone, timeoutLogged>>
            [] resp.kind = "done_error" ->
                 /\ jobState' = "Failed"
                 /\ timeoutLogged' = TRUE
                 /\ pc' = "handle"
                 /\ UNCHANGED <<notDone, generated_videos_uri>>
  /\ UNCHANGED <<inputVars, schedVars, rendered, uploaded, outcome, final_sequence, frames>>

\* One iteration of for i in range(max_iterations).  A done answer returns
\* its gcsUri at once; an answer that raises (a transport error, or a done
\* answer without "response") breaks out of the loop to line 151, which
\* prints the time-out message before None is returned.
VeoPoll ==
  /\ pc = "poll"
  /\ attemptCount < max_iterations
  /\ \E resp \in Responses :
       /\ lastResponse' = resp
       /\ attemptCount' = attemptCount + 1
       /\ CASE resp.kind = "not_done" ->
                 /\ notDone' = notDone + 1
                 /\ UNCHANGED <<jobState, generated_videos_uri, pc, timeoutLogged>>
            [] resp.kind \in {"done_uri", "done_no_uri"} ->
                 /\ jobState' = "Succeeded"
                 /\ generated_videos_uri' = resp.uri
                 /\ pc' = "handle"
                 /\ UNCHANGED <<notDone, timeoutLogged>>
            [] resp.kind \in {"done_error", "transport_error"} ->
                 /\ jobState' = "Failed"
                 /\ timeoutLogged' = TRUE
                 /\ pc' = "handle"
                 /\ UNCHANGED <<notDone, generated_videos_uri>>
  /\ UNCHANGED <<inputVars, schedVars, rendered, uploaded, outcome, final_sequence, frames>>

\* Variant of VeoTimeout that starts the polling loop again.
VeoTimeoutRestart ==
  /\ pc = "poll"
  /\ attemptCount >= max_iterations
  /\ attemptCount' = 0
  /\ notDone' = 0
  /\ UNCHANGED <<inputVars, schedVars, rendered, uploaded, outcome, final_sequence, frames,
                 jobState, pc, timeoutLogged, generated_videos_uri, lastResponse>>

\* The loop ran max_iterations times without a done answer: line 151 reports
\* the timeout and None is returned.
VeoTimeout ==
  /\ pc = "poll"
  /\ attemptCount >= max_iterations
  /\ jobState' = "TimedOut"
  /\ timeoutLogged' = TRUE
  /\ pc' = "handle"
  /\ UNCHANGED <<inputVars, schedVars, rendered, uploaded, outcome,
                 final_sequence, frames, attemptCount, notDone, generated_videos_uri,
                 lastResponse>>

\* Variant of VeoHandle that appends the generated clip at its original speed.
VeoHandleNoSpeedx ==
  /\ pc = "handle"
  /\ IF generated_videos_uri = ""
       THEN /\ final_sequence' = final_sequence
            /\ pc' = "schedule"
            /\ i' = i + 1
            /\ outcome' = outcome
       ELSE \/ \E len \in GeneratedLengths :
                 /\ final_sequence' =
                      Append(final_sequence, Seg("bridge", frames.A, 0, len, 0, 0))
                 /\ pc' = "schedule"
                 /\ i' = i + 1
                 /\ outcome' = outcome
            \/ /\ final_sequence' = final_sequence
               /\ pc' = "schedule"
               /\ i' = i + 1
               /\ outcome' = outcome
            \/ /\ Raise("io_error")
               /\ UNCHANGED <<final_sequence, i>>
  /\ attemptCount' = 0
  /\ notDone' = 0
  /\ generated_videos_uri' = ""
  /\ lastResponse' = NoResponse
  /\ UNCHANGED <<inputVars, plan, current_duration, total, rendered, uploaded, jobState,
                 timeoutLogged, frames>>

\* process_gcs_videos after the call: no URI skips the transition; otherwise
\* the generated clip is downloaded, sped up and appended, or the transition
\* is skipped when no local file exists after the download.  The locals of
\* interpolate_video_veo2 are gone once its result has been consumed; only
\* the way the operation ended is remembered until the next pair.
VeoHandle ==
  /\ pc = "handle"
  /\ IF generated_videos_uri = ""
       THEN /\ final_sequence' = final_sequence
            /\ pc' = "schedule"
            /\ i' = i + 1
            /\ outcome' = outcome
       ELSE \/ \E len \in GeneratedLengths :
                 /\ final_sequence' =
                      Append(final_sequence,
                             Seg("bridge", frames.A, 0, len \div TRANSITION_SPEED, 0, 0))
                 /\ pc' = "schedule"
                 /\ i' = i + 1
                 /\ outcome' = outcome
            \/ /\ final_sequence' = final_sequence
               /\ pc' = "schedule"
               /\ i' = i + 1
               /\ outcome' = outcome
            \/ /\ Raise("io_error")
               /\ UNCHANGED <<final_sequence, i>>
  /\ attemptCount' = 0
  /\ notDone' = 0
  /\ generated_videos_uri' = ""
  /\ lastResponse' = NoResponse
  /\ UNCHANGED <<inputVars, plan, current_duration, total, rendered, uploaded, jobState,
                 timeoutLogged, frames>>

\* final_sequence.append(clips[-1]); concatenate_videoclips(final_sequence)
VeoConcatenate ==
  /\ pc = "schedule"
  /\ pipeline = "veo2"
  /\ i >= Len(durs) - 1
  /\ LET n == Len(durs) IN
       IF n = 0
         THEN /\ Raise("index_error")
              /\ UNCHANGED <<final_sequence, plan, total>>
         ELSE LET seq == Append(final_sequence, Seg("clip", n - 1, 0, durs[n], 0, 0))
                  tt == ConcatStarts([k \in 1..Len(seq) |-> seq[k].dur] \o <<0>>, 0)
              IN /\ final_sequence' = seq
                 /\ plan' = [k \in 1..Len(seq) |-> [seq[k] EXCEPT !.start = tt[k]]]
                 /\ total' = tt[Len(seq) + 1]
                 /\ pc' = "write"
                 /\ outcome' = outcome
  /\ UNCHANGED <<inputVars, current_duration, i, rendered, uploaded, jobState, frames,
                 attemptCount, notDone, generated_videos_uri, lastResponse, timeoutLogged>>

\* ------------------------------------------------------- render and upload
write_videofile ==
  /\ pc = "write"
  /\ rendered' = TRUE
  /\ pc' = "upload"
  /\ UNCHANGED <<inputVars, schedVars, uploaded, outcome, jobVars>>

\* Variant of write_videofileFail that swallows the encoder error.
write_videofileFailIgnored ==
  /\ pc = "write"
  /\ pc' = "upload"
  /\ UNCHANGED <<inputVars, schedVars, rendered, uploaded, outcome, jobVars>>

\* write_videofile raises: the except clause reports it and the run ends.
write_videofileFail ==
  /\ pc = "write"
  /\ Raise("io_error")
  /\ UNCHANGED <<inputVars, schedVars, rendered, uploaded, jobVars>>

Upload ==
  /\ pc = "upload"
  /\ uploaded' = TRUE
  /\ pc' = "end"
  /\ outcome' = "complete"
  /\ UNCHANGED <<inputVars, schedVars, rendered, jobVars>>

UploadFail ==
  /\ pc = "upload"
  /\ Raise("io_error")
  /\ UNCHANGED <<inputVars, schedVars, rendered, uploaded, jobVars>>

Next ==
  \/ Download
  \/ DownloadFail
  \/ VideoFileClipFail
  \/ CrossfadeStep
  \/ CrossfadeComposite
  \/ SlideStep
  \/ SlideComposite
  \/ WipeStep
  \/ WipeComposite
  \/ ConcatOnly
  \/ FadeStep
  \/ FadeStepFail
  \/ FadeConcatenate
  \/ BlendStep
  \/ BlendComposite
  \/ check_for_ffmpeg
  \/ XfadeList
  \/ XfadeDownload
  \/ XfadeDownloadFail
  \/ stitch_two_videos
  \/ stitch_two_videosFail
  \/ XfadeFinal
  \/ write_videofile
  \/ write_videofileFail
  \/ Upload
  \/ UploadFail

Spec == Init /\ [][Next]_vars

\* The interpolation script on its own.
InitVeo ==
  /\ pipeline = "veo2"
  /\ d = VEO_TRANSITION_DURATION
  /\ InitCommon
  /\ durs \in VeoClipLists
  /\ sizes = [k \in 1..Len(durs) |-> 1]

NextVeo ==
  \/ Download
  \/ DownloadFail
  \/ VideoFileClipFail
  \/ VeoBeginPair
  \/ VeoEncodeFrames
  \/ get_auth_headers
  \/ VeoSubmit
  \/ VeoPoll
  \/ VeoTimeout
  \/ VeoHandle
  \/ VeoConcatenate
  \/ write_videofile
  \/ write_videofileFail
  \/ Upload
  \/ UploadFail

SpecVeo == InitVeo /\ [][NextVeo]_vars

\* interpolate_video_veo2 receives the two frames only: the clip durations
\* play no part in a job, so one duration stands for all of them here.
InitVeoFair ==
  /\ InitVeo
  /\ \A k \in 1..Len(durs) : durs[k] = 1

\* The interpolation script when every status request returns: the polling
\* loop goes on to its next iteration, and leaves after the last one.
SpecVeoFair ==
  InitVeoFair /\ [][NextVeo]_vars /\ WF_vars(VeoPoll) /\ WF_vars(VeoTimeout)

\* Both families of scripts together.  No script branches on a frame size,
\* so one size stands for all where failures and early returns are concerned.
InitAll ==
  \/ Init /\ \A k \in 1..Len(sizes) : sizes[k] = 1
  \/ InitVeo
NextAll == Next \/ NextVeo
SpecAll == InitAll /\ [][NextAll]_vars

\* Listing, download and ordering of the source objects, for every script.
InitList ==
  /\ pipeline \in LocalPipelines \cup {"veo2"}
  /\ d = 0
  /\ blobs \in Listings
  /\ durs = [k \in 1..Len(blobs) |-> 1]
  /\ sizes = [k \in 1..Len(blobs) |-> 1]
  /\ pc = IF pipeline = "xfade" THEN "check" ELSE "download"
  /\ i = 0
  /\ plan = <<>>
  /\ current_duration = 0
  /\ total = 0
  /\ rendered = FALSE
  /\ uploaded = FALSE
  /\ outcome = "running"
  /\ final_sequence = <<>>
  /\ frames = NoFrames
  /\ jobState = "none"
  /\ attemptCount = 0
  /\ notDone = 0
  /\ generated_videos_uri = ""
  /\ lastResponse = NoResponse
  /\ timeoutLogged = FALSE
  /\ video_blobs = <<>>
  /\ downloaded_files = <<>>
  /\ clips = <<>>

NextList ==
  \/ check_for_ffmpeg
  \/ Download
  \/ DownloadFail
  \/ VideoFileClipFail
  \/ XfadeList
  \/ XfadeDownload
  \/ XfadeDownloadFail

SpecList == InitList /\ [][NextList]_vars

\* ================================================================ claims
\* The timeline of the run is complete: final_clip exists with its duration.
Built == pc \in {"write", "upload"} \/ outcome = "complete"

\* Scripts that start a clip before its predecessor has ended.
OverlapPipelines == CursorPipelines \cup {"blend", "xfade"}

ErrorOutcomes ==
  {"io_error", "index_error", "zero_division", "auth_error", "invalid_input",
   "unsupported_frame_size", "exit_ffmpeg_missing", "too_few_videos"}

\* Failures of what the scripts run on: storage, encoder, missing ffmpeg.
EnvironmentFailures == {"io_error", "exit_ffmpeg_missing"}

TransitionFits == \A k \in 1..Len(durs) : d <= durs[k]

Min3(a, b, c) == Min(a, Min(b, c))

\* Length of the time two segments are both on the timeline.
RealisedOverlap(a, b) ==
  Max(0, Min(SegEnd(a), SegEnd(b)) - Max(a.start, b.start))

Overlaps(a, b) == a.start < SegEnd(b) /\ b.start < SegEnd(a)

\* C1: crossfade, slide and wipe, N >= 2 clips and one transition duration
\* 0 <= d <= every clip duration: the composite lasts
\* sum(durations) - (N-1)*d, which is the final value of current_duration.
C1_CursorTotalDuration ==
  (pipeline \in CursorPipelines /\ Built /\ Len(durs) >= 2 /\ TransitionFits)
    => /\ total = SumSeq(durs) - (Len(durs) - 1) * d
       /\ current_duration = total

C1_Witness ==
  /\ pipeline \in CursorPipelines
  /\ outcome = "complete"
  /\ Len(durs) = 3
  /\ d = 2
  /\ TransitionFits
  /\ total = SumSeq(durs) - 4

\* C2: fade-in-out and blend, N >= 2 clips and fade duration d <= every clip
\* duration: the output lasts sum(durations) - (N-1)*d.
C2_FadeTotalDuration ==
  (pipeline \in {"fade_in_out", "blend"} /\ Built /\ Len(durs) >= 2 /\ TransitionFits)
    => total = SumSeq(durs) - (Len(durs) - 1) * d

\* C3: plain concatenation of N >= 1 clips lasts the sum of the clip
\* durations, every clip starts exactly where its predecessor ends and no two
\* placed segments overlap in time.
C3_CutTotalAndNoOverlap ==
  (pipeline = "concatenation" /\ Built)
    => /\ total = SumSeq(durs)
       /\ Len(plan) = Len(durs)
       /\ plan[1].start = 0
       /\ \A k \in 1..(Len(plan) - 1) : plan[k + 1].start = SegEnd(plan[k])
       /\ \A j, k \in 1..Len(plan) : j # k => ~Overlaps(plan[j], plan[k])

C3_Witness ==
  /\ pipeline = "concatenation"
  /\ outcome = "complete"
  /\ durs = <<2, 1, 3>>
  /\ total = 6
  /\ plan[3].start = 3

\* C4: in an overlap-based script, for any clip durations > 0 and any
\* requested duration >= 0, every adjacent pair overlaps by
\* min(requested duration, earlier clip, later clip), no clip has a negative
\* start (or xfade) offset and the total duration is never negative.
C4_OverlapClamped ==
  (pipeline \in OverlapPipelines /\ Built)
    => /\ total >= 0
       /\ \A k \in 2..Len(plan) :
            /\ plan[k].start >= 0
            /\ RealisedOverlap(plan[k - 1], plan[k]) = Min3(d, durs[k - 1], durs[k])

\* C5: in an overlap-based script, for any clip durations > 0 and transition
\* duration >= 0, a placed segment overlaps in time with no segment other
\* than its immediate predecessor and successor.
C5_OnlyNeighboursOverlap ==
  (pipeline \in OverlapPipelines /\ Built)
    => \A j, k \in 1..Len(plan) : k >= j + 2 => ~Overlaps(plan[j], plan[k])

\* C6: with exactly one input clip every script ends with an output made of
\* that one clip and no transition, without raising or reporting an error
\* (failures of the storage, the encoder or the ffmpeg installation aside).
C6_SingleClipNoError ==
  (Len(durs) = 1 /\ pc = "end" /\ outcome \notin EnvironmentFailures)
    => /\ outcome = "complete"
       /\ Len(plan) = 1
       /\ plan[1].fadein = 0
       /\ plan[1].fadeout = 0

\* C7: with zero input clips the run ends with an InvalidInput error outcome
\* (a fatal error, not a normal exit), and nothing is rendered or uploaded.
C7_EmptyIsFatalError ==
  (Len(durs) = 0 /\ pc = "end")
    => /\ outcome \in ErrorOutcomes
       /\ ~rendered
       /\ ~uploaded

\* C8: done=false on the first k status requests and done=true with result X
\* on the next one: the job ends Succeeded with the handle X after exactly
\* k + 1 status requests, k + 1 <= max_iterations.
C8_PollUntilDone ==
  (jobState = "Succeeded" /\ lastResponse.kind = "done_uri")
    => /\ generated_videos_uri = lastResponse.uri
       /\ attemptCount = notDone + 1
       /\ attemptCount <= max_iterations

C8_Witness ==
  /\ jobState = "Succeeded"
  /\ notDone = 5
  /\ attemptCount = 6
  /\ lastResponse.kind = "done_uri"
  /\ generated_videos_uri = lastResponse.uri

\* C9: when no status request within the ceiling reports done, the job ends
\* TimedOut after exactly max_iterations status requests, no further request
\* is issued, and the pair is joined as by a cut: clip A directly followed by
\* clip B, without a bridge clip.
C9_TimeoutAfterCeiling ==
  jobState = "TimedOut"
    => /\ pc = "handle"
            => /\ attemptCount = max_iterations
               /\ notDone = max_iterations
               /\ generated_videos_uri = ""
       /\ pc # "handle" => attemptCount = 0
       /\ pc = "schedule"
            => /\ final_sequence[Len(final_sequence)].kind = "clip"
               /\ final_sequence[Len(final_sequence)].idx = i - 1
       /\ plan # <<>>
            => LET n == Len(plan) IN
               /\ plan[n - 1].kind = "clip"
               /\ plan[n - 1].idx = Len(durs) - 2
               /\ plan[n].kind = "clip"
               /\ plan[n].idx = Len(durs) - 1
               /\ plan[n].start = SegEnd(plan[n - 1])

C9_Witness ==
  /\ jobState = "TimedOut"
  /\ outcome = "complete"
  /\ Len(durs) = 2
  /\ Len(plan) = 2
  /\ total = durs[1] + durs[2]

\* C10: a failure of the bridge generation of one pair (submission error,
\* network or authentication failure, job Failed or TimedOut) is never fatal:
\* the run still renders and uploads the final video.
C10_BridgeFailureNeverFatal ==
  (pipeline = "veo2" /\ pc = "end" /\ Len(durs) >= 1 /\ outcome # "io_error")
    => /\ outcome = "complete"
       /\ rendered
       /\ uploaded

\* C11: a transport-level error on a status request ends the polling at
\* once: the job is Failed, the failed request was the last one, and no
\* handle is returned, however many attempts were still allowed.
C11_TransportErrorEndsPolling ==
  lastResponse.kind = "transport_error"
    => /\ pc = "handle"
       /\ jobState = "Failed"
       /\ attemptCount = notDone + 1
       /\ attemptCount <= max_iterations
       /\ generated_videos_uri = ""

C11_Witness ==
  /\ lastResponse.kind = "transport_error"
  /\ jobState = "Failed"
  /\ notDone = 3
  /\ attemptCount = 4
  /\ pc = "handle"

\* C12: a done=true answer that carries an error instead of a result makes
\* the job Failed, an outcome distinct from Succeeded and from TimedOut (no
\* time-out is reported), and no result handle is produced.
C12_DoneWithErrorIsFailed ==
  lastResponse.kind = "done_error"
    => /\ jobState = "Failed"
       /\ generated_videos_uri = ""
       /\ ~timeoutLogged

\* C13: when the job-creation request fails, the call ends at once with a
\* submission error: the submission is not retried and no status request is
\* issued for that pair; an authentication failure issues none either.
C13_SubmissionNotRetried ==
  /\ jobState = "SubmissionError"
       => /\ pc \notin {"encode", "auth", "submit", "poll"}
          /\ attemptCount = 0
          /\ lastResponse = NoResponse
          /\ generated_videos_uri = ""
  /\ outcome = "auth_error"
       => /\ attemptCount = 0
          /\ lastResponse = NoResponse
          /\ jobState = "none"

C13_Witness ==
  /\ jobState = "SubmissionError"
  /\ outcome = "complete"
  /\ attemptCount = 0
  /\ Len(plan) = Len(durs)

RECURSIVE BridgeSum(_)
BridgeSum(segs) ==
  IF segs = <<>> THEN 0
  ELSE (IF Head(segs).kind = "bridge" THEN Head(segs).dur ELSE 0) + BridgeSum(Tail(segs))

\* C14: the output of the interpolation script lasts the sum of the source
\* clip durations plus the durations of the inserted bridge clips (at most one
\* per pair, each lasting its generated length divided by TRANSITION_SPEED),
\* and its segments follow one another without overlap.
C14_BridgeTotalDuration ==
  (pipeline = "veo2" /\ Built)
    => /\ total = SumSeq(durs) + BridgeSum(plan)
       /\ Len(plan) <= 2 * Len(durs) - 1
       /\ \A k \in 1..Len(plan) :
            plan[k].kind = "bridge"
              => /\ plan[k].dur * TRANSITION_SPEED \in GeneratedLengths
                 /\ k > 1 /\ plan[k - 1].kind = "clip" /\ plan[k - 1].idx = plan[k].idx
       /\ plan[1].start = 0
       /\ \A k \in 1..(Len(plan) - 1) : plan[k + 1].start = SegEnd(plan[k])
       /\ \A j, k \in 1..Len(plan) : j # k => ~Overlaps(plan[j], plan[k])

C14_Witness ==
  /\ pipeline = "veo2"
  /\ outcome = "complete"
  /\ durs = <<2, 1, 2>>
  /\ Len(plan) = 5
  /\ plan[2].dur = 1
  /\ plan[4].dur = 2
  /\ total = 8

\* C15: when a clip download or the render fails the run stops and nothing is
\* uploaded; the final video is uploaded only after all downloads and the
\* render have succeeded, and it holds every input clip exactly once.
C15_NoUploadAfterFailure ==
  /\ outcome \in ErrorOutcomes => (~uploaded /\ pc = "end")
  /\ pc = "upload" => rendered
  /\ uploaded
       => /\ rendered
          /\ outcome = "complete"
          /\ \A c \in 0..(Len(durs) - 1) :
               Cardinality({k \in 1..Len(plan) : plan[k].kind = "clip" /\ plan[k].idx = c}) = 1

C15_Witness ==
  /\ outcome = "io_error"
  /\ pc = "end"
  /\ Len(durs) = 2
  /\ Len(plan) = 2
  /\ total > 0
  /\ ~rendered
  /\ ~uploaded

\* C16: slide and wipe fail with UnsupportedFrameSize whenever two adjacent
\* clips have different frame sizes, and never place a clip whose size differs
\* from its predecessor's (or from video_size) on the composite.
C16_FrameSizeMismatchRejected ==
  pipeline \in {"slide", "wipe"}
    => /\ (pc = "end" /\ outcome # "io_error"
             /\ \E k \in 1..(Len(durs) - 1) : sizes[k] # sizes[k + 1])
            => outcome = "unsupported_frame_size"
       /\ \A k \in 2..Len(plan) :
            /\ sizes[plan[k].idx + 1] = sizes[plan[k - 1].idx + 1]
            /\ sizes[plan[k].idx + 1] = video_size

\* C17: with transition duration 0 every overlap-based script (fade, blend,
\* crossfade, slide, wipe, filter crossfade) given at least two clips raises
\* no error of its own, and the plan it builds has the start offsets and the
\* total duration of plain concatenation of the same clips.
C17_ZeroTransitionIsCut ==
  (pipeline \in OverlapPipelines \cup {"fade_in_out"} /\ d = 0 /\ Len(durs) >= 2)
    => /\ outcome \notin {"zero_division", "index_error"}
       /\ Built => /\ total = SumSeq(durs)
                   /\ Len(plan) = Len(durs)
                   /\ \A k \in 1..Len(plan) :
                        plan[k].start = ConcatStarts(durs, 0)[k]

\* C20: in every overlap-based script clip i >= 1 starts at the end time of
\* clip i-1 on the shared timeline minus the transition duration, for every
\* number of clips (transition no longer than any clip).
C20_CumulativeCursor ==
  (pipeline \in OverlapPipelines /\ TransitionFits)
    => \A k \in 2..Len(plan) : plan[k].start = SegEnd(plan[k - 1]) - d

\* C18: the clips handed to the scheduling step are exactly the listed video
\* objects sorted alphabetically by object name, each exactly once, whatever
\* the order of the listing.
StitchOrderStep ==
  /\ (pc = "download" /\ pc' = "schedule")
       => clips' = SortStrings(SelectSeq(blobs, IsVideo))
  /\ (pc = "download" /\ pc' = "fetch")
       => video_blobs' = SortStrings(SelectSeq(blobs, IsVideo))
  /\ (pc = "fetch" /\ pc' = "schedule") => clips' = video_blobs

C18_StitchOrderIsObjectNameOrder == [][StitchOrderStep]_vars

TerminalJobStates == {"Succeeded", "Failed", "TimedOut"}

\* A step taken from a terminal job state.
TerminalIsLeftAlone ==
  jobState \in TerminalJobStates
    => /\ pc' \notin {"submit", "poll"}
       /\ attemptCount' <= attemptCount
       /\ \/ jobState' = jobState
          \/ jobState' = "none" /\ pc = "schedule" /\ i' >= i

\* C21: every submitted job eventually reaches Succeeded, Failed or TimedOut
\* when each request returns; once it is terminal no further status request
\* is issued for it and its outcome stays until the next pair starts a new job.
C21_JobTerminates ==
  /\ (jobState = "Polling") ~> (jobState \in TerminalJobStates)
  /\ [][TerminalIsLeftAlone]_vars

C21_Witness ==
  /\ jobState = "TimedOut" /\ pc = "end" /\ outcome = "complete"
  /\ Len(durs) = 3 /\ Len(final_sequence) = 3

\* C22: interpolate_video_veo2 returns a non-empty video URI exactly when the
\* job ended in Succeeded: every done answer without an error yields a URI,
\* and no Failed, TimedOut or SubmissionError job yields one.
C22_HandleIffSucceeded ==
  pc = "handle"
    => /\ (generated_videos_uri # "") <=> (jobState = "Succeeded")
       /\ lastResponse.kind \in {"done_uri", "done_no_uri"} => generated_videos_uri # ""

IsClip(s) == s.kind = "clip"

\* C23: the sequence built by the interpolation script holds every input clip
\* exactly once and in input order; a bridge clip stands only directly after
\* the clip whose last frame it was generated from and before the next clip,
\* the frames handed to the service are those of the current pair (i, i+1),
\* and a bridge is appended only for a pair whose job succeeded.
C23_SequenceHoldsClipsAndOwnBridges ==
  pipeline = "veo2"
    => LET fs == final_sequence
           source == SelectSeq(fs, IsClip)
       IN /\ \A k \in 1..Len(source) : source[k].idx = k - 1 /\ source[k].dur = durs[k]
          /\ Built => Len(source) = Len(durs)
          /\ \A k \in 1..Len(fs) :
               fs[k].kind = "bridge"
                 => /\ k > 1 /\ fs[k - 1].kind = "clip" /\ fs[k - 1].idx = fs[k].idx
                    /\ k < Len(fs) => fs[k + 1].kind = "clip" /\ fs[k + 1].idx = fs[k].idx + 1
          /\ frames # NoFrames
               => frames.B = frames.A + 1 /\ frames.A \in 0..(Len(durs) - 2)
          /\ pc \in {"encode", "auth", "submit", "poll", "handle"}
               => frames = [A |-> i, B |-> i + 1]
          /\ (pc = "schedule" /\ fs # <<>> /\ fs[Len(fs)].kind = "bridge")
               => jobState = "Succeeded" /\ fs[Len(fs)].idx = i - 1

C23_Witness ==
  /\ pipeline = "veo2" /\ outcome = "complete" /\ Len(durs) = 3
  /\ Len(final_sequence) = 4
  /\ final_sequence[3].kind = "bridge" /\ final_sequence[3].idx = 1
  /\ frames = [A |-> 1, B |-> 2]
  /\ jobState = "Succeeded"

\* The single-pass cursor scheduler of crossfade.py: the first clip starts at
\* 0, every later clip at the cursor minus the transition, and the cursor
\* moves to the end of the clip just placed.
RECURSIVE CursorStarts(_, _, _)
CursorStarts(ds, k, cursor) ==
  IF k > Len(ds) THEN <<>>
  ELSE LET start_time == IF k = 1 THEN 0 ELSE cursor - d
       IN <<start_time>> \o CursorStarts(ds, k + 1, start_time + ds[k])

\* C24: for N >= 2 clips and d <= every clip duration the pairwise stitching
\* of xfade.py places every clip at the start offset the single-pass cursor
\* scheduler of crossfade.py gives it, and its output lasts
\* sum(durations) - (N-1)*d.
C24_XfadeRefinesCursor ==
  (pipeline \in {"xfade", "crossfade"} /\ TransitionFits /\ Len(durs) >= 2)
    => /\ \A k \in 1..Len(plan) : plan[k].start = CursorStarts(durs, 1, 0)[k]
       /\ Built => /\ Len(plan) = Len(durs)
                   /\ total = SumSeq(durs) - (Len(durs) - 1) * d
                   /\ total = SegEnd(plan[Len(plan)])

C24_Witness ==
  /\ pipeline = "xfade" /\ outcome = "complete"
  /\ durs = <<2, 3, 2>> /\ d = 2
  /\ plan[2].start = 0 /\ plan[3].start = 1
  /\ total = 3

\* C25: in fade-in-out and blend every clip but the last is given a fade-out
\* of the transition duration and every clip but the first a fade-in of the
\* transition duration; the first clip has no fade-in, the last no fade-out.
C25_FadeOutAndFadeInPerPair ==
  (pipeline \in {"fade_in_out", "blend"} /\ Built)
    => /\ Len(plan) = Len(durs)
       /\ \A k \in 1..Len(plan) :
            /\ plan[k].fadein = (IF k > 1 THEN d ELSE 0)
            /\ plan[k].fadeout = (IF k < Len(plan) THEN d ELSE 0)

\* C26: in crossfade, slide and wipe with 0 <= d <= every clip duration the
\* cursor never decreases from one clip to the next, it is the end of the clip
\* placed last, and the duration declared for the composite equals the largest
\* end time of the placed segments: no clip is cut and no empty tail is added.
C26_CursorMonotoneAndTight ==
  (pipeline \in CursorPipelines /\ TransitionFits)
    => /\ \A k \in 1..(Len(plan) - 1) : SegEnd(plan[k]) <= SegEnd(plan[k + 1])
       /\ plan # <<>> => /\ current_duration = SegEnd(plan[Len(plan)])
                         /\ current_duration = MaxEnd(plan)
       /\ Built => /\ total = current_duration
                   /\ total = MaxEnd(plan)
                   /\ Len(plan) = Len(durs)

C26_Witness ==
  /\ pipeline = "slide" /\ outcome = "complete"
  /\ durs = <<3, 1, 2>> /\ d = 1
  /\ current_duration = 4 /\ total = 4 /\ MaxEnd(plan) = 4
  /\ SegEnd(plan[1]) = SegEnd(plan[2])
====
